---- MODULE Spec2Model ----
(***************************************************************************)
(* A model of structeasy: the Node and Element records                     *)
(* (structeasy_class.py) and the import, plotting and solver helpers       *)
(* (structeasy_lib.py).                                                    *)
(*                                                                         *)
(* Python objects live in `heap`: a reference to a Node is its index in    *)
(* the heap, so that two references to the same record are equal and a     *)
(* copy of a record is not.  The external libraries (gmsh, plotly,         *)
(* matplotlib, openseespy) are the environment: what they hold is state,   *)
(* what they return is an input.                                           *)
(***************************************************************************)
EXTENDS Integers, Sequences, FiniteSets, TLC

VARIABLES
    heap,           \* the Node objects allocated so far (reference = index)
    nodes_db,       \* dict: node number -> reference to a Node
    elements_db,    \* dict: element number -> Element record
    ret,            \* the last call of a pure helper and what it returned
    mesh,           \* what the gmsh model holds (the .geo file's content)
    gmsh,           \* the gmsh session and the calls made to it in this run
    imp,            \* import_geofile: where it stands, and its locals
    ops,            \* the OpenSees session: the model built so far
    scall,          \* the last start_model call and the session before it
    mat,            \* material_tester: where it stands, its locals, its calls
    plot            \* plot_model: where it stands, its arguments, its figure

vars == <<heap, nodes_db, elements_db, ret, mesh, gmsh, imp, ops, scall, mat, plot>>

(***************************************************************************)
(* Bounds of the model.                                                    *)
(***************************************************************************)
MaxCoord == 4       \* y coordinates are drawn from 0..MaxCoord
MaxNodes == 3       \* the longest nodes sequence given to Element(...)
MaxTag == 2         \* physical group identifiers are drawn from 1..MaxTag
MaxGroups == 3      \* the most physical groups a model declares
MaxPoint == 2       \* point entities of an imported model are 1..n, n <= MaxPoint
MaxLine == 2        \* line entities of an imported model are 1..n, n <= MaxLine
MaxSolverNode == 3  \* create_nodes is given nodes numbered in 1..MaxSolverNode
MaxStrain == 3      \* the longest strain sequence given to material_tester
MaxPlotNodes == 2   \* the most nodes of a small plotted model
MaxPlotElems == 1   \* the most elements of a small plotted model

XCoords == {0, 1, 3}
ZCoords == {0, 1}
NodeRefs == {1, 2}  \* the two Node objects of the Element specification
RefVectors == {<<0, 0, 1>>, <<0, 1, 0>>, <<1, 1, 0>>}
Dims == {0, 1}      \* the entity dimensions the import reads: points, lines
Entities == {1, 2}  \* the entity identifiers of the tag specification

NoneVal == [kind |-> "None"]
EmptyDict == <<>>

(***************************************************************************)
(* structeasy_class.py                                                     *)
(***************************************************************************)
\* Node.__init__
Node(nnumber, x, y, z, tag) ==
    [nnumber |-> nnumber, x |-> x, y |-> y, z |-> z, tag |-> tag,
     coord |-> <<x, y, z>>, eltype |-> 0,
     container |-> <<>>, data_analysis |-> <<>>]

\* Element.__init__: nodes[0] and nodes[1] are read, so a shorter list raises
CanConstructElement(nodes) == Len(nodes) >= 2

Element(h, enumber, nodes, tag, etype) ==
    [enumber |-> enumber, nodes |-> nodes,
     nodei |-> h[nodes[1]].nnumber, nodej |-> h[nodes[2]].nnumber,
     tag |-> tag, etype |-> etype,
     container |-> <<>>, data_analysis |-> <<>>]

\* v ** 0.5 for an integer v >= 0, kept exact: the root is whole + a rest,
\* where whole is the integer part and rem = v - whole^2 (0 for a perfect
\* square, so 25 ** 0.5 is [whole |-> 5, rem |-> 0], that is 5.0)
Pow05(v) ==
    LET w == CHOOSE r \in 0..v : r * r <= v /\ (r + 1) * (r + 1) > v
    IN  [kind |-> "float", whole |-> w, rem |-> v - w * w]

Sq(a) == a * a

LengthNoZ(h, el) ==
    IF Len(el.nodes) = 2
    THEN LET c1 == h[el.nodes[1]].coord
             c2 == h[el.nodes[2]].coord
         IN  Pow05(Sq(c2[1] - c1[1]) + Sq(c2[2] - c1[2]))
    ELSE NoneVal

\* Element.length
Length(h, el) ==
    IF Len(el.nodes) = 2
    THEN LET c1 == h[el.nodes[1]].coord
             c2 == h[el.nodes[2]].coord
         IN  Pow05(Sq(c2[1] - c1[1]) + Sq(c2[2] - c1[2]) + Sq(c2[3] - c1[3]))
    ELSE NoneVal

\* numpy.subtract on two coordinate lists
Subtract(a, b) == <<a[1] - b[1], a[2] - b[2], a[3] - b[3]>>

\* numpy.cross on two 3-vectors
Cross(a, b) ==
    <<a[2] * b[3] - a[3] * b[2],
      a[3] * b[1] - a[1] * b[3],
      a[1] * b[2] - a[2] * b[1]>>

DefaultVecxy == <<0, 0, 1>>

VecxzReversed(h, el, vecxy) ==
    LET xaxis == Subtract(h[el.nodes[1]].coord, h[el.nodes[2]].coord)
    IN  Cross(xaxis, vecxy)

\* Element.vecxz: nodes[1] and nodes[0] are read whatever the length
Vecxz(h, el, vecxy) ==
    LET xaxis == Subtract(h[el.nodes[2]].coord, h[el.nodes[1]].coord)
    IN  Cross(xaxis, vecxy)

(***************************************************************************)
(* The Element specification: two Node objects with coordinates drawn from *)
(* the grid, one element slot, and calls of the Element methods.           *)
(***************************************************************************)
Points == {<<x, y, z>> : x \in XCoords, y \in 0..MaxCoord, z \in ZCoords}

SeqsUpTo(S, lo, hi) == UNION {[1..n -> S] : n \in lo..hi}

NoCall == [op |-> "none"]
NoSession == [session |-> "closed", calls |-> <<>>]
NoImport == [pc |-> "start", nodes |-> <<>>, lines |-> <<>>,
             model_tags |-> <<>>, i |-> 1]
NoModel == [ndm |-> 0, ndf |-> 0, nodes |-> {}]
NoStart == [typology |-> "", outcome |-> "none", calls |-> <<>>, before |-> NoModel]
NoTest == [pc |-> "start", matTag |-> 0, strain |-> <<>>, i |-> 1,
           stress |-> <<>>, calls |-> <<>>, failed |-> FALSE, printed |-> 0]
NoFlags == [show_numbers |-> FALSE, show_tags |-> FALSE, color_by_tag |-> FALSE,
            save_html |-> FALSE, show_legend |-> FALSE]
NoPlot == [pc |-> "start", flags |-> NoFlags, tag_color_map |-> <<>>,
           node_trace |-> <<>>, element_traces |-> <<>>, events |-> <<>>]
NoMesh == [points |-> <<>>, coords |-> <<>>, lines |-> <<>>, boundary |-> <<>>,
           physical |-> <<>>, members |-> <<>>]

InitElement ==
    /\ \E p1 \in Points, p2 \in Points :
         heap = <<Node(1, p1[1], p1[2], p1[3], -1),
                  Node(2, p2[1], p2[2], p2[3], -1)>>
    /\ nodes_db = [n \in NodeRefs |-> n]
    /\ elements_db = EmptyDict
    /\ ret = NoCall
    /\ mesh = NoMesh
    /\ gmsh = NoSession
    /\ imp = NoImport
    /\ ops = NoModel
    /\ scall = NoStart
    /\ mat = NoTest
    /\ plot = NoPlot

\* Element(1, nodes, -1): the default etype is 1
NewElement ==
    \E nodes \in SeqsUpTo(NodeRefs, 2, MaxNodes) :
        /\ CanConstructElement(nodes)
        /\ elements_db' = [e \in {1} |-> Element(heap, 1, nodes, -1, 1)]
        /\ ret' = NoCall
        /\ UNCHANGED <<heap, nodes_db, mesh, gmsh, imp, ops, scall, mat, plot>>

CallLength ==
    /\ 1 \in DOMAIN elements_db
    /\ ret' = [op |-> "length", value |-> Length(heap, elements_db[1])]
    /\ UNCHANGED <<heap, nodes_db, elements_db, mesh, gmsh, imp, ops, scall, mat, plot>>

\* vecxz() with the default reference vector
CallVecxzDefault ==
    /\ 1 \in DOMAIN elements_db
    /\ ret' = [op |-> "vecxz", vecxy |-> DefaultVecxy, default |-> TRUE,
               value |-> Vecxz(heap, elements_db[1], DefaultVecxy)]
    /\ UNCHANGED <<heap, nodes_db, elements_db, mesh, gmsh, imp, ops, scall, mat, plot>>

CallVecxz ==
    /\ 1 \in DOMAIN elements_db
    /\ \E v \in RefVectors :
         ret' = [op |-> "vecxz", vecxy |-> v, default |-> FALSE,
                 value |-> Vecxz(heap, elements_db[1], v)]
    /\ UNCHANGED <<heap, nodes_db, elements_db, mesh, gmsh, imp, ops, scall, mat, plot>>

NextElement == NewElement \/ CallLength \/ CallVecxzDefault \/ CallVecxz

SpecElement == InitElement /\ [][NextElement]_vars

(***************************************************************************)
(* Claims about Element.length and Element.vecxz (SpecElement).            *)
(***************************************************************************)
TheElement == elements_db[1]
NodeI == heap[TheElement.nodes[1]]
NodeJ == heap[TheElement.nodes[2]]

\* the squared Euclidean distance of two Node records, from their x, y, z
Dist2(a, b) == Sq(b.x - a.x) + Sq(b.y - a.y) + Sq(b.z - a.z)

\* C1: length() of an element with exactly two nodes is the Euclidean
\* distance of the two nodes (the non-negative number whose square is the sum
\* of the squared coordinate differences; 5.0 for (0,0,0) and (3,4,0)), and
\* length() of an element with any other number of nodes is None.
C1_LengthIsEuclidean ==
    (ret.op = "length") =>
        IF Len(TheElement.nodes) = 2
        THEN /\ ret.value.kind = "float"
             /\ ret.value.whole >= 0
             /\ ret.value.rem >= 0
             /\ ret.value.rem <= 2 * ret.value.whole
             /\ Sq(ret.value.whole) + ret.value.rem = Dist2(NodeI, NodeJ)
             /\ (NodeI.coord = <<0, 0, 0>> /\ NodeJ.coord = <<3, 4, 0>>)
                    => ret.value = [kind |-> "float", whole |-> 5, rem |-> 0]
        ELSE ret.value = NoneVal

C1_Witness ==
    /\ ret.op = "length"
    /\ Len(TheElement.nodes) = 2
    /\ NodeI.coord = <<0, 0, 0>>
    /\ NodeJ.coord = <<3, 4, 0>>
    /\ ret.value.kind = "float"
    /\ ret.value.whole = 5
    /\ ret.value.rem = 0

Dot(a, b) == a[1] * b[1] + a[2] * b[2] + a[3] * b[3]

\* the determinant of the matrix with rows a, b, c
Det(a, b, c) ==
      a[1] * b[2] * c[3] + a[2] * b[3] * c[1] + a[3] * b[1] * c[2]
    - a[3] * b[2] * c[1] - a[2] * b[1] * c[3] - a[1] * b[3] * c[2]

Axial == <<NodeJ.x - NodeI.x, NodeJ.y - NodeI.y, NodeJ.z - NodeI.z>>

\* a is a rational multiple of v (parallel or anti-parallel), or is zero
Parallel(a, v) ==
    \E k \in -(MaxCoord + 1)..(MaxCoord + 1), m \in 1..(MaxCoord + 1) :
        \A i \in 1..3 : m * a[i] = k * v[i]

GetEntitiesForPhysicalGroup(m, dim, tag) ==
    IF <<dim, tag>> \in DOMAIN m.members THEN m.members[<<dim, tag>>] ELSE {}

RECURSIVE AssignTagLoop(_, _, _, _, _, _)
\* the for loop of assign_tag from position i on, with tag as it stands
AssignTagLoop(nnumber, eltype, model_tags, m, i, tag) ==
    IF i > Len(model_tags)
    THEN tag
    ELSE LET tag_ == model_tags[i]
             eltype_ == tag_[1]
         IN  AssignTagLoop(nnumber, eltype, model_tags, m, i + 1,
                IF /\ eltype_ = eltype
                   /\ nnumber \in GetEntitiesForPhysicalGroup(m, eltype, tag_[2])
                THEN tag_[2]
                ELSE tag)

RECURSIVE AssignTagFirstLoop(_, _, _, _, _)
AssignTagFirstLoop(nnumber, eltype, model_tags, m, i) ==
    IF i > Len(model_tags)
    THEN -1
    ELSE IF /\ model_tags[i][1] = eltype
            /\ nnumber \in GetEntitiesForPhysicalGroup(m, eltype, model_tags[i][2])
         THEN model_tags[i][2]
         ELSE AssignTagFirstLoop(nnumber, eltype, model_tags, m, i + 1)

AssignTagFirst(nnumber, eltype, model_tags, m) ==
    AssignTagFirstLoop(nnumber, eltype, model_tags, m, 1)

\* assign_tag
AssignTag(nnumber, eltype, model_tags, m) ==
    AssignTagLoop(nnumber, eltype, model_tags, m, 1, -1)

(***************************************************************************)
(* The tag specification: a model that declares up to MaxGroups physical   *)
(* groups, in any order, and calls of assign_tag on it.                    *)
(***************************************************************************)
GroupIds == Dims \X (1..MaxTag)

\* lists of distinct (dim, tag) pairs
GroupLists ==
    {g \in SeqsUpTo(GroupIds, 0, MaxGroups) :
        \A i, j \in 1..Len(g) : i # j => g[i] # g[j]}

Range(f) == {f[i] : i \in DOMAIN f}

InitTag ==
    /\ \E g \in GroupLists :
         \E mem \in [Range(g) -> SUBSET Entities] :
            mesh = [NoMesh EXCEPT !.physical = g, !.members = mem]
    /\ heap = <<>>
    /\ nodes_db = EmptyDict
    /\ elements_db = EmptyDict
    /\ ret = NoCall
    /\ gmsh = NoSession
    /\ imp = NoImport
    /\ ops = NoModel
    /\ scall = NoStart
    /\ mat = NoTest
    /\ plot = NoPlot

CallAssignTag ==
    /\ \E nnumber \in Entities, eltype \in Dims :
         ret' = [op |-> "assign_tag", nnumber |-> nnumber, eltype |-> eltype,
                 value |-> AssignTag(nnumber, eltype, mesh.physical, mesh)]
    /\ UNCHANGED <<heap, nodes_db, elements_db, mesh, gmsh, imp, ops, scall, mat, plot>>

NextTag == CallAssignTag

SpecTag == InitTag /\ [][NextTag]_vars

\* the positions of the groups of the entity's dimension that contain it
Matches ==
    {i \in 1..Len(mesh.physical) :
        /\ mesh.physical[i][1] = ret.eltype
        /\ ret.nnumber \in mesh.members[mesh.physical[i]]}

\* the positions of the groups of another dimension that contain the
\* identifier
OtherDimMatches ==
    {i \in 1..Len(mesh.physical) :
        /\ mesh.physical[i][1] # ret.eltype
        /\ ret.nnumber \in mesh.members[mesh.physical[i]]}

Last(S) == CHOOSE i \in S : \A j \in S : j <= i

\* C2: assign_tag returns -1 when no physical group of the entity's dimension
\* contains it, the identifier of the group when exactly one does, and the
\* identifier of the last such group in scan order when several do; groups of
\* another dimension never contribute.
C2_AssignTag ==
    (ret.op = "assign_tag") =>
        /\ (Matches = {}) => ret.value = -1
        /\ (Cardinality(Matches) = 1) =>
               \E i \in Matches : ret.value = mesh.physical[i][2]
        /\ (Matches # {}) => ret.value = mesh.physical[Last(Matches)][2]
        /\ (ret.value # -1) =>
               \E i \in Matches : ret.value = mesh.physical[i][2]

C2_Witness ==
    /\ ret.op = "assign_tag"
    /\ Cardinality(Matches) = 2
    /\ OtherDimMatches # {}
    /\ Last(OtherDimMatches) > Last(Matches)
    /\ mesh.physical[Last(Matches)][2] < mesh.physical[Last(OtherDimMatches)][2]
    /\ \E i \in Matches : mesh.physical[i][2] > mesh.physical[Last(Matches)][2]
    /\ ret.value = mesh.physical[Last(Matches)][2]

(***************************************************************************)
(* structeasy_lib.py: import_geofile                                       *)
(*                                                                         *)
(* mesh.points and mesh.lines are what model.getEntities(0) and            *)
(* model.getEntities(1) return, lists of (dim, tag) pairs;                 *)
(* mesh.coords[tag] is what model.getValue(0, tag, ()) returns and         *)
(* mesh.boundary[tag] what model.getBoundary([(1, tag)]) returns.          *)
(* gmsh.calls lists the gmsh calls of the current run, in order.           *)
(***************************************************************************)
Called(g, call) == [g EXCEPT !.calls = Append(@, call)]

RECURSIVE CalledAll(_, _)
CalledAll(g, calls) ==
    IF calls = <<>> THEN g ELSE CalledAll(Called(g, Head(calls)), Tail(calls))

\* the getEntitiesForPhysicalGroup calls one assign_tag(_, eltype, model_tags)
\* makes: one per group of that dimension (the `and` short-circuits)
AssignTagCalls(eltype, model_tags) ==
    [k \in 1..Cardinality({i \in 1..Len(model_tags) : model_tags[i][1] = eltype})
        |-> "getEntitiesForPhysicalGroup"]

\* where the import goes once the node loop is at position i
AfterNodes(nodes, lines, i) ==
    IF i <= Len(nodes) THEN "nodes"
    ELSE IF lines # <<>> THEN "lines" ELSE "finalize"

AfterLines(lines, i) == IF i <= Len(lines) THEN "lines" ELSE "finalize"

\* line 40: initialize(); a call of import_geofile starts here
ImportInitialize ==
    /\ imp.pc \in {"start", "done", "raised"}
    /\ gmsh' = [session |-> "open", calls |-> <<"initialize">>]
    /\ imp' = [NoImport EXCEPT !.pc = "open"]
    /\ heap' = <<>>
    /\ nodes_db' = EmptyDict
    /\ elements_db' = EmptyDict
    /\ UNCHANGED <<ret, mesh, ops, scall, mat, plot>>

\* line 41: open(filename); raises when the file is missing or malformed
ImportOpen ==
    /\ imp.pc = "open"
    /\ gmsh' = Called(gmsh, "open")
    /\ \E ok \in BOOLEAN :
         imp' = [imp EXCEPT !.pc = IF ok THEN "entities" ELSE "raised"]
    /\ UNCHANGED <<heap, nodes_db, elements_db, ret, mesh, ops, scall, mat, plot>>

\* lines 42-45: the three queries before the loops
ImportEntities ==
    /\ imp.pc = "entities"
    /\ gmsh' = CalledAll(gmsh, <<"getEntities", "getEntities", "getPhysicalGroups">>)
    /\ imp' = [imp EXCEPT !.nodes = mesh.points, !.lines = mesh.lines,
                          !.model_tags = mesh.physical, !.i = 1,
                          !.pc = AfterNodes(mesh.points, mesh.lines, 1)]
    /\ UNCHANGED <<heap, nodes_db, elements_db, ret, mesh, ops, scall, mat, plot>>

\* lines 46-50: one iteration of the node loop
ImportNode ==
    /\ imp.pc = "nodes"
    /\ LET nnumber == imp.nodes[imp.i][2]
           c == mesh.coords[nnumber]
           tag == AssignTag(nnumber, 0, imp.model_tags, mesh)
       IN  /\ gmsh' = CalledAll(Called(gmsh, "getValue"),
                                AssignTagCalls(0, imp.model_tags))
           /\ heap' = Append(heap, Node(nnumber, c[1], c[2], c[3], tag))
           /\ nodes_db' = [k \in DOMAIN nodes_db \cup {nnumber} |->
                              IF k = nnumber THEN Len(heap) + 1 ELSE nodes_db[k]]
    /\ imp' = [imp EXCEPT !.i = IF imp.i < Len(imp.nodes) THEN imp.i + 1 ELSE 1,
                          !.pc = AfterNodes(imp.nodes, imp.lines, imp.i + 1)]
    /\ UNCHANGED <<elements_db, ret, mesh, ops, scall, mat, plot>>

LineElementSwapped(h, enumber, nodes, tag) ==
    [Element(h, enumber, nodes, tag, "uniaxial") EXCEPT
        !.nodei = h[nodes[2]].nnumber, !.nodej = h[nodes[1]].nnumber]

\* line 58: Element(enumber, nodes, tag, etype = 'uniaxial')
LineElement(h, enumber, nodes, tag) == Element(h, enumber, nodes, tag, "uniaxial")

\* lines 53-58: one iteration of the line loop.  nodes_db[n[1]] raises
\* KeyError for a boundary point that is no key of nodes_db, and Element(...)
\* raises IndexError for a boundary of fewer than two points (after assign_tag
\* has made its queries)
ImportLine ==
    /\ imp.pc = "lines"
    /\ LET e == imp.lines[imp.i]
           enumber == e[2]
           bound_node == mesh.boundary[enumber]
       IN  IF \E k \in 1..Len(bound_node) : bound_node[k][2] \notin DOMAIN nodes_db
           THEN /\ gmsh' = Called(gmsh, "getBoundary")
                /\ imp' = [imp EXCEPT !.pc = "raised"]
                /\ UNCHANGED elements_db
           ELSE LET nodes == [k \in 1..Len(bound_node) |-> nodes_db[bound_node[k][2]]]
                    tag == AssignTag(enumber, 1, imp.model_tags, mesh)
                IN  /\ gmsh' = CalledAll(Called(gmsh, "getBoundary"),
                                         AssignTagCalls(1, imp.model_tags))
                    /\ IF CanConstructElement(nodes)
                       THEN /\ elements_db' =
                                 [k \in DOMAIN elements_db \cup {enumber} |->
                                    IF k = enumber
                                    THEN LineElement(heap, enumber, nodes, tag)
                                    ELSE elements_db[k]]
                            /\ imp' = [imp EXCEPT
                                 !.i = imp.i + 1,
                                 !.pc = AfterLines(imp.lines, imp.i + 1)]
                       ELSE /\ imp' = [imp EXCEPT !.pc = "raised"]
                            /\ UNCHANGED elements_db
    /\ UNCHANGED <<heap, nodes_db, ret, mesh, ops, scall, mat, plot>>

ImportNoFinalize ==
    /\ imp.pc = "finalize"
    /\ imp' = [imp EXCEPT !.pc = "done"]
    /\ UNCHANGED <<heap, nodes_db, elements_db, ret, mesh, gmsh, ops, scall, mat, plot>>

\* lines 60-61: finalize() and return nodes_db, elements_db
ImportFinalize ==
    /\ imp.pc = "finalize"
    /\ gmsh' = [Called(gmsh, "finalize") EXCEPT !.session = "closed"]
    /\ imp' = [imp EXCEPT !.pc = "done"]
    /\ UNCHANGED <<heap, nodes_db, elements_db, ret, mesh, ops, scall, mat, plot>>

(***************************************************************************)
(* The import specification: a model of up to MaxPoint points and MaxLine  *)
(* lines, each line with a boundary of up to two points (which may be      *)
(* points the model does not list), and runs of import_geofile on it.      *)
(***************************************************************************)
Layouts == {"row", "diagonal"}

CoordOf(layout, p) ==
    IF layout = "row" THEN <<p, 0, 0>> ELSE <<3 * (p - 1), 4 * (p - 1), 0>>

Group(physical, members) == [physical |-> physical, members |-> members]

ImportGroups ==
    { Group(<<>>, <<>>),
      Group(<<<<0, 1>>, <<1, 2>>>>, (<<0, 1>> :> {1}) @@ (<<1, 2>> :> {1})),
      Group(<<<<0, 1>>, <<0, 2>>, <<1, 1>>>>,
            (<<0, 1>> :> {1, 2}) @@ (<<0, 2>> :> {2}) @@ (<<1, 1>> :> {2})) }

Entity(dim, S) == [s \in S |-> <<dim, s>>]

InitImport ==
    /\ \E np \in 0..MaxPoint, nl \in 0..MaxLine, layout \in Layouts, g \in ImportGroups :
         \E b \in [1..nl -> SeqsUpTo({0} \X (1..MaxPoint), 0, 2)] :
            mesh = [points |-> Entity(0, 1..np),
                    coords |-> [p \in 1..np |-> CoordOf(layout, p)],
                    lines |-> Entity(1, 1..nl),
                    boundary |-> b,
                    physical |-> g.physical,
                    members |-> g.members]
    /\ heap = <<>>
    /\ nodes_db = EmptyDict
    /\ elements_db = EmptyDict
    /\ ret = NoCall
    /\ gmsh = NoSession
    /\ imp = NoImport
    /\ ops = NoModel
    /\ scall = NoStart
    /\ mat = NoTest
    /\ plot = NoPlot

NextImport ==
    \/ ImportInitialize
    \/ ImportOpen
    \/ ImportEntities
    \/ ImportNode
    \/ ImportLine
    \/ ImportFinalize

SpecImport == InitImport /\ [][NextImport]_vars

Positions(calls, call) == {i \in 1..Len(calls) : calls[i] = call}

\* C4: in a run of import_geofile, initialize is the first gmsh call (before
\* the open and every query); finalize is called at most once, after every
\* other call, and has been called exactly when the run has completed; a run
\* that raised has not called finalize and leaves the session open.
C4_SessionDiscipline ==
    /\ (imp.pc = "start") => (gmsh.calls = <<>> /\ gmsh.session = "closed")
    /\ (imp.pc # "start") => Positions(gmsh.calls, "initialize") = {1}
    /\ Positions(gmsh.calls, "finalize") \subseteq {Len(gmsh.calls)}
    /\ (imp.pc = "done") <=> (Positions(gmsh.calls, "finalize") # {})
    /\ (imp.pc = "done") => gmsh.session = "closed"
    /\ (imp.pc = "raised") =>
          /\ Positions(gmsh.calls, "finalize") = {}
          /\ gmsh.session = "open"

C4_Witness ==
    /\ imp.pc = "raised"
    /\ gmsh.session = "open"
    /\ Positions(gmsh.calls, "getBoundary") # {}
    /\ Positions(gmsh.calls, "getValue") # {}
    /\ Positions(gmsh.calls, "finalize") = {}
    /\ elements_db # EmptyDict

\* C8: after a successful import, every key of nodes_db is the nnumber of the
\* Node under it, every key of elements_db the enumber of the Element under
\* it, every entry of an element's nodes is the very Node that nodes_db holds
\* under that node's number, nodei and nodej are the numbers of the first and
\* second entries, and the element type is 'uniaxial'.
C8_ImportIntegrity ==
    (imp.pc = "done") =>
        /\ \A n \in DOMAIN nodes_db : heap[nodes_db[n]].nnumber = n
        /\ \A e \in DOMAIN elements_db :
              LET el == elements_db[e]
              IN  /\ el.enumber = e
                  /\ \A k \in 1..Len(el.nodes) :
                        /\ heap[el.nodes[k]].nnumber \in DOMAIN nodes_db
                        /\ nodes_db[heap[el.nodes[k]].nnumber] = el.nodes[k]
                  /\ Len(el.nodes) >= 2
                  /\ el.nodei = heap[el.nodes[1]].nnumber
                  /\ el.nodej = heap[el.nodes[2]].nnumber
                  /\ el.etype = "uniaxial"

C8_Witness ==
    /\ imp.pc = "done"
    /\ Cardinality(DOMAIN nodes_db) = 2
    /\ Cardinality(DOMAIN elements_db) = 2
    /\ elements_db[1].nodei = 2
    /\ elements_db[1].nodej = 1
    /\ elements_db[2].nodes = <<nodes_db[1], nodes_db[2]>>
    /\ elements_db[2].tag = 1

(***************************************************************************)
(* structeasy_lib.py: start_model and create_nodes                         *)
(*                                                                         *)
(* ops is the OpenSees domain: the dimensions and degrees of freedom the   *)
(* model command set (0 before any) and the tags of the nodes created.     *)
(***************************************************************************)
\* openseespy wipe()
Wipe(o) == NoModel

\* openseespy model('basic', '-ndm', ndm, '-ndf', ndf)
Model(o, ndm, ndf) == [o EXCEPT !.ndm = ndm, !.ndf = ndf]

StartModelSameDof(o, typology) ==
    IF typology = "3d"
    THEN [ops |-> Model(Wipe(o), 3, 6), calls |-> <<"wipe", "model">>,
          outcome |-> "returned"]
    ELSE IF typology = "2d"
    THEN [ops |-> Model(Wipe(o), 2, 6), calls |-> <<"wipe", "model">>,
          outcome |-> "returned"]
    ELSE [ops |-> o, calls |-> <<>>, outcome |-> "NameError"]

StartModelWipeFirst(o, typology) ==
    IF typology = "3d"
    THEN [ops |-> Model(Wipe(o), 3, 6), calls |-> <<"wipe", "model">>,
          outcome |-> "returned"]
    ELSE IF typology = "2d"
    THEN [ops |-> Model(Wipe(o), 2, 3), calls |-> <<"wipe", "model">>,
          outcome |-> "returned"]
    ELSE [ops |-> Wipe(o), calls |-> <<"wipe">>, outcome |-> "NameError"]

\* start_model(typology): the session after the call, the solver calls made,
\* and how the call ended
StartModel(o, typology) ==
    IF typology = "3d"
    THEN [ops |-> Model(Wipe(o), 3, 6), calls |-> <<"wipe", "model">>,
          outcome |-> "returned"]
    ELSE IF typology = "2d"
    THEN [ops |-> Model(Wipe(o), 2, 3), calls |-> <<"wipe", "model">>,
          outcome |-> "returned"]
    ELSE [ops |-> o, calls |-> <<>>, outcome |-> "NameError"]

Typologies == {"2d", "3d", "tower", "2D", ""}

CallStartModel ==
    /\ \E typology \in Typologies :
         LET r == StartModel(ops, typology)
         IN  /\ ops' = r.ops
             /\ scall' = [typology |-> typology, outcome |-> r.outcome,
                          calls |-> r.calls, before |-> ops]
    /\ UNCHANGED <<heap, nodes_db, elements_db, ret, mesh, gmsh, imp, mat, plot>>

\* create_nodes(nodes): node(n, *coord) for every key, in order.  The solver
\* may refuse a node, and refuses it when no model is defined or the tag is
\* taken; the call then raises and the nodes created so far stay
CallCreateNodes ==
    /\ \E keys \in SUBSET (1..MaxSolverNode) :
         \E created \in SUBSET keys :
            /\ \A n \in created : \A k \in keys : k < n => k \in created
            /\ created # {} => ops.ndm # 0
            /\ created \cap ops.nodes = {}
            /\ ops' = [ops EXCEPT !.nodes = @ \cup created]
    /\ UNCHANGED <<heap, nodes_db, elements_db, ret, mesh, gmsh, imp, scall, mat, plot>>

InitSolver ==
    /\ heap = <<>>
    /\ nodes_db = EmptyDict
    /\ elements_db = EmptyDict
    /\ ret = NoCall
    /\ mesh = NoMesh
    /\ gmsh = NoSession
    /\ imp = NoImport
    /\ ops = NoModel
    /\ scall = NoStart
    /\ mat = NoTest
    /\ plot = NoPlot

NextSolver == CallStartModel \/ CallCreateNodes

SpecSolver == InitSolver /\ [][NextSolver]_vars

C10_StartModelFrame ==
    [][(scall' # scall) =>
          /\ scall'.before = ops
          /\ (scall'.typology \notin {"2d", "3d"}) =>
                /\ scall'.outcome = "NameError"
                /\ scall'.calls = <<>>
                /\ ops' = ops
          /\ (scall'.typology \in {"2d", "3d"}) =>
                /\ scall'.outcome = "returned"
                /\ scall'.calls = <<"wipe", "model">>
                /\ ops'.nodes = {}]_vars

C10_Witness ==
    /\ scall.outcome = "NameError"
    /\ scall.typology = "tower"
    /\ scall.before.ndm = 3
    /\ scall.before.nodes = {1, 3}
    /\ ops = scall.before

(***************************************************************************)
(* structeasy_lib.py: material_tester                                      *)
(*                                                                         *)
(* Every statement of the try block may fail: the imports, the call of     *)
(* testUniaxialMaterial (no such material), setStrain and getStress, and   *)
(* the plotting.  mat.calls lists the solver calls made, in order.         *)
(***************************************************************************)
SolverCall(name, arg) == [call |-> name, arg |-> arg]

OnFailureImportOnly(m, step) ==
    IF step = "import"
    THEN [m EXCEPT !.pc = "except", !.failed = TRUE]
    ELSE [m EXCEPT !.pc = "propagated", !.failed = TRUE]

\* line 231: a bare except catches whatever the try block raised
OnFailure(m, step) == [m EXCEPT !.pc = "except", !.failed = TRUE]

StrainValues == {1, 2}
StressValues == {0, 7}
MatTags == {1, 2}

\* a call of material_tester(matTag, strain); line 216 imports numpy, which
\* the module has imported already
TesterCall ==
    /\ mat.pc \in {"start", "returned"}
    /\ \E matTag \in MatTags, strain \in SeqsUpTo(StrainValues, 0, MaxStrain) :
         mat' = [NoTest EXCEPT !.pc = "import", !.matTag = matTag,
                               !.strain = strain]
    /\ UNCHANGED <<heap, nodes_db, elements_db, ret, mesh, gmsh, imp, ops, scall, plot>>

\* lines 218-219: the imports of openseespy and matplotlib
TesterImport ==
    /\ mat.pc = "import"
    /\ \E ok \in BOOLEAN :
         mat' = IF ok THEN [mat EXCEPT !.pc = "test"] ELSE OnFailure(mat, "import")
    /\ UNCHANGED <<heap, nodes_db, elements_db, ret, mesh, gmsh, imp, ops, scall, plot>>

\* lines 220-221: testUniaxialMaterial(matTag); stress = []
TesterTest ==
    /\ mat.pc = "test"
    /\ \E ok \in BOOLEAN :
         mat' = IF ok
                THEN [mat EXCEPT
                        !.calls = Append(@, SolverCall("testUniaxialMaterial", mat.matTag)),
                        !.stress = <<>>, !.i = 1,
                        !.pc = IF mat.strain = <<>> THEN "plot" ELSE "setStrain"]
                ELSE OnFailure([mat EXCEPT
                        !.calls = Append(@, SolverCall("testUniaxialMaterial", mat.matTag))],
                        "testUniaxialMaterial")
    /\ UNCHANGED <<heap, nodes_db, elements_db, ret, mesh, gmsh, imp, ops, scall, plot>>

\* line 223: setStrain(eps)
TesterSetStrain ==
    /\ mat.pc = "setStrain"
    /\ LET called == [mat EXCEPT
                        !.calls = Append(@, SolverCall("setStrain", mat.strain[mat.i]))]
       IN  \E ok \in BOOLEAN :
             mat' = IF ok THEN [called EXCEPT !.pc = "getStress"]
                    ELSE OnFailure(called, "setStrain")
    /\ UNCHANGED <<heap, nodes_db, elements_db, ret, mesh, gmsh, imp, ops, scall, plot>>

\* line 224: stress.append(getStress())
TesterGetStress ==
    /\ mat.pc = "getStress"
    /\ LET called == [mat EXCEPT !.calls = Append(@, SolverCall("getStress", 0))]
       IN  \/ \E sigma \in StressValues :
                mat' = [called EXCEPT
                          !.stress = Append(@, sigma),
                          !.i = mat.i + 1,
                          !.pc = IF mat.i < Len(mat.strain) THEN "setStrain" ELSE "plot"]
           \/ mat' = OnFailure(called, "getStress")
    /\ UNCHANGED <<heap, nodes_db, elements_db, ret, mesh, gmsh, imp, ops, scall, plot>>

\* lines 225-230: the plot of stress against strain
TesterPlot ==
    /\ mat.pc = "plot"
    /\ \E ok \in BOOLEAN :
         mat' = IF ok THEN [mat EXCEPT !.pc = "returned"] ELSE OnFailure(mat, "plot")
    /\ UNCHANGED <<heap, nodes_db, elements_db, ret, mesh, gmsh, imp, ops, scall, plot>>

\* lines 231-232: the handler prints the message; the call returns
TesterExcept ==
    /\ mat.pc = "except"
    /\ mat' = [mat EXCEPT !.printed = @ + 1, !.pc = "returned"]
    /\ UNCHANGED <<heap, nodes_db, elements_db, ret, mesh, gmsh, imp, ops, scall, plot>>

InitTester ==
    /\ heap = <<>>
    /\ nodes_db = EmptyDict
    /\ elements_db = EmptyDict
    /\ ret = NoCall
    /\ mesh = NoMesh
    /\ gmsh = NoSession
    /\ imp = NoImport
    /\ ops = NoModel
    /\ scall = NoStart
    /\ mat = NoTest
    /\ plot = NoPlot

NextTester ==
    \/ TesterCall
    \/ TesterImport
    \/ TesterTest
    \/ TesterSetStrain
    \/ TesterGetStress
    \/ TesterPlot
    \/ TesterExcept

SpecTester == InitTester /\ [][NextTester]_vars

\* the solver calls of a run that nothing interrupts: one
\* testUniaxialMaterial, then setStrain and getStress for each strain value
ExpectedCalls(matTag, strain) ==
    [k \in 1..(1 + 2 * Len(strain)) |->
        IF k = 1 THEN SolverCall("testUniaxialMaterial", matTag)
        ELSE IF k % 2 = 0 THEN SolverCall("setStrain", strain[k \div 2])
        ELSE SolverCall("getStress", 0)]

\* C6: material_tester never propagates a failure: a run in which a step
\* failed prints the message once and returns; and a run in which nothing
\* failed has called testUniaxialMaterial once and then setStrain and
\* getStress once per strain value, in the order of the sequence.
C6_TesterSwallows ==
    /\ mat.pc # "propagated"
    /\ (mat.pc = "returned" /\ mat.failed) => mat.printed = 1
    /\ (mat.pc = "returned" /\ ~mat.failed) =>
          /\ mat.printed = 0
          /\ mat.calls = ExpectedCalls(mat.matTag, mat.strain)
          /\ Len(mat.stress) = Len(mat.strain)
    /\ mat.failed => mat.pc \in {"except", "returned"}

C6_Witness ==
    /\ mat.pc = "returned"
    /\ mat.failed
    /\ mat.printed = 1
    /\ mat.strain = <<2, 1, 2>>
    /\ mat.calls = <<SolverCall("testUniaxialMaterial", mat.matTag),
                     SolverCall("setStrain", 2), SolverCall("getStress", 0),
                     SolverCall("setStrain", 1)>>

(***************************************************************************)
(* structeasy_lib.py: plot_model                                           *)
(*                                                                         *)
(* A dict is read in the order of its keys as inserted, which for the      *)
(* models here is increasing; set(...) of small positive integers is read  *)
(* in increasing order too.  A list built from nodes_db.values() is kept   *)
(* as a function of the node's key, its order being that of the keys.      *)
(* plot.events lists the calls of fig.show and fig.write_html, in order.   *)
(***************************************************************************)
\* the integers of S in increasing order
SortedSeq(S) ==
    [i \in 1..Cardinality(S) |->
        CHOOSE x \in S : Cardinality({y \in S : y < x}) = i - 1]

\* elements_db.values(), in order
ElementValues(edb) == LET ks == SortedSeq(DOMAIN edb) IN [i \in 1..Len(ks) |-> edb[ks[i]]]

\* line 87: the distinct tags of nodes and elements, -1 left out
TagSet(h, ndb, edb) ==
    ({h[ndb[n]].tag : n \in DOMAIN ndb} \cup {edb[e].tag : e \in DOMAIN edb}) \ {-1}

\* the position (from 0) of tag t in list(set(...))
TagPosition(t, tags) == Cardinality({u \in tags : u < t})

LutSize == 256

\* cm.rainbow as a table: entry i is the colour of i / 255, that is
\* (|2x - 0.5|, sin(pi x), cos(pi x / 2)) clipped to [0, 1], each as
\* int(c * 255), which is how line 89 prints it
RainbowLUT == <<
    <<127, 0, 255>>, <<125, 3, 254>>, <<123, 6, 254>>, <<121, 9, 254>>,
    <<119, 12, 254>>, <<117, 15, 254>>, <<115, 18, 254>>, <<113, 21, 254>>,
    <<111, 25, 254>>, <<109, 28, 254>>, <<107, 31, 254>>, <<105, 34, 254>>,
    <<103, 37, 254>>, <<101, 40, 254>>, <<99, 43, 254>>, <<97, 46, 253>>,
    <<95, 49, 253>>, <<93, 53, 253>>, <<91, 56, 253>>, <<89, 59, 253>>,
    <<87, 62, 253>>, <<85, 65, 252>>, <<83, 68, 252>>, <<81, 71, 252>>,
    <<79, 74, 252>>, <<77, 77, 251>>, <<75, 80, 251>>, <<73, 83, 251>>,
    <<71, 86, 251>>, <<69, 89, 250>>, <<67, 92, 250>>, <<65, 95, 250>>,
    <<63, 97, 250>>, <<61, 100, 249>>, <<59, 103, 249>>, <<57, 106, 249>>,
    <<55, 109, 248>>, <<53, 112, 248>>, <<51, 115, 248>>, <<49, 117, 247>>,
    <<47, 120, 247>>, <<45, 123, 246>>, <<43, 126, 246>>, <<41, 128, 246>>,
    <<39, 131, 245>>, <<37, 134, 245>>, <<35, 136, 244>>, <<33, 139, 244>>,
    <<31, 142, 243>>, <<29, 144, 243>>, <<27, 147, 243>>, <<25, 149, 242>>,
    <<23, 152, 242>>, <<21, 154, 241>>, <<19, 157, 241>>, <<17, 159, 240>>,
    <<15, 162, 239>>, <<13, 164, 239>>, <<11, 167, 238>>, <<9, 169, 238>>,
    <<7, 171, 237>>, <<5, 174, 237>>, <<3, 176, 236>>, <<1, 178, 236>>,
    <<0, 180, 235>>, <<2, 183, 234>>, <<4, 185, 234>>, <<6, 187, 233>>,
    <<8, 189, 232>>, <<10, 191, 232>>, <<12, 193, 231>>, <<14, 195, 230>>,
    <<16, 197, 230>>, <<18, 199, 229>>, <<20, 201, 228>>, <<22, 203, 228>>,
    <<24, 205, 227>>, <<26, 207, 226>>, <<28, 209, 226>>, <<30, 210, 225>>,
    <<32, 212, 224>>, <<34, 214, 223>>, <<36, 215, 223>>, <<38, 217, 222>>,
    <<40, 219, 221>>, <<42, 220, 220>>, <<44, 222, 220>>, <<46, 223, 219>>,
    <<48, 225, 218>>, <<50, 226, 217>>, <<52, 228, 216>>, <<54, 229, 215>>,
    <<56, 230, 215>>, <<58, 232, 214>>, <<60, 233, 213>>, <<62, 234, 212>>,
    <<64, 236, 211>>, <<66, 237, 210>>, <<68, 238, 209>>, <<70, 239, 209>>,
    <<72, 240, 208>>, <<74, 241, 207>>, <<76, 242, 206>>, <<78, 243, 205>>,
    <<80, 244, 204>>, <<82, 245, 203>>, <<84, 246, 202>>, <<86, 246, 201>>,
    <<88, 247, 200>>, <<90, 248, 199>>, <<92, 249, 198>>, <<94, 249, 197>>,
    <<96, 250, 196>>, <<98, 250, 195>>, <<100, 251, 194>>, <<102, 251, 193>>,
    <<104, 252, 192>>, <<106, 252, 191>>, <<108, 253, 190>>,
    <<110, 253, 189>>, <<112, 253, 188>>, <<114, 254, 187>>,
    <<116, 254, 186>>, <<118, 254, 185>>, <<120, 254, 184>>,
    <<122, 254, 183>>, <<124, 254, 181>>, <<126, 254, 180>>,
    <<128, 254, 179>>, <<130, 254, 178>>, <<132, 254, 177>>,
    <<134, 254, 176>>, <<136, 254, 175>>, <<138, 254, 174>>,
    <<140, 254, 172>>, <<142, 253, 171>>, <<144, 253, 170>>,
    <<146, 253, 169>>, <<148, 252, 168>>, <<150, 252, 167>>,
    <<152, 251, 165>>, <<154, 251, 164>>, <<156, 250, 163>>,
    <<158, 250, 162>>, <<160, 249, 161>>, <<162, 249, 159>>,
    <<164, 248, 158>>, <<166, 247, 157>>, <<168, 246, 156>>,
    <<170, 246, 154>>, <<172, 245, 153>>, <<174, 244, 152>>,
    <<176, 243, 151>>, <<178, 242, 149>>, <<180, 241, 148>>,
    <<182, 240, 147>>, <<184, 239, 146>>, <<186, 238, 144>>,
    <<188, 237, 143>>, <<190, 236, 142>>, <<192, 234, 140>>,
    <<194, 233, 139>>, <<196, 232, 138>>, <<198, 230, 136>>,
    <<200, 229, 135>>, <<202, 228, 134>>, <<204, 226, 132>>,
    <<206, 225, 131>>, <<208, 223, 130>>, <<210, 222, 128>>,
    <<212, 220, 127>>, <<214, 219, 126>>, <<216, 217, 124>>,
    <<218, 215, 123>>, <<220, 214, 122>>, <<222, 212, 120>>,
    <<224, 210, 119>>, <<226, 209, 117>>, <<228, 207, 116>>,
    <<230, 205, 115>>, <<232, 203, 113>>, <<234, 201, 112>>,
    <<236, 199, 110>>, <<238, 197, 109>>, <<240, 195, 108>>,
    <<242, 193, 106>>, <<244, 191, 105>>, <<246, 189, 103>>,
    <<248, 187, 102>>, <<250, 185, 100>>, <<252, 183, 99>>, <<254, 180, 97>>,
    <<255, 178, 96>>, <<255, 176, 95>>, <<255, 174, 93>>, <<255, 171, 92>>,
    <<255, 169, 90>>, <<255, 167, 89>>, <<255, 164, 87>>, <<255, 162, 86>>,
    <<255, 159, 84>>, <<255, 157, 83>>, <<255, 154, 81>>, <<255, 152, 80>>,
    <<255, 149, 78>>, <<255, 147, 77>>, <<255, 144, 75>>, <<255, 142, 74>>,
    <<255, 139, 72>>, <<255, 136, 71>>, <<255, 134, 69>>, <<255, 131, 68>>,
    <<255, 128, 66>>, <<255, 126, 65>>, <<255, 123, 63>>, <<255, 120, 62>>,
    <<255, 117, 60>>, <<255, 115, 59>>, <<255, 112, 57>>, <<255, 109, 56>>,
    <<255, 106, 54>>, <<255, 103, 53>>, <<255, 100, 51>>, <<255, 97, 49>>,
    <<255, 95, 48>>, <<255, 92, 46>>, <<255, 89, 45>>, <<255, 86, 43>>,
    <<255, 83, 42>>, <<255, 80, 40>>, <<255, 77, 39>>, <<255, 74, 37>>,
    <<255, 71, 36>>, <<255, 68, 34>>, <<255, 65, 32>>, <<255, 62, 31>>,
    <<255, 59, 29>>, <<255, 56, 28>>, <<255, 53, 26>>, <<255, 49, 25>>,
    <<255, 46, 23>>, <<255, 43, 21>>, <<255, 40, 20>>, <<255, 37, 18>>,
    <<255, 34, 17>>, <<255, 31, 15>>, <<255, 28, 14>>, <<255, 25, 12>>,
    <<255, 21, 10>>, <<255, 18, 9>>, <<255, 15, 7>>, <<255, 12, 6>>,
    <<255, 9, 4>>, <<255, 6, 3>>, <<255, 3, 1>>, <<255, 0, 0>> >>

\* cm.rainbow(np.linspace(0, 1, n))[k] for k in 0..n-1: linspace gives
\* k / (n - 1), the colormap reads entry int(x * 256), 255 for x = 1.  (The
\* integer quotient is the float result for the n this model reaches.)
LutIndex(k, n) ==
    IF n = 1 THEN 0
    ELSE IF (LutSize * k) \div (n - 1) >= LutSize THEN LutSize - 1
    ELSE (LutSize * k) \div (n - 1)

Rgb(c) == [kind |-> "rgb", r |-> c[1], g |-> c[2], b |-> c[3]]
Named(name) == [kind |-> "named", name |-> name]

\* lines 86-91
TagColorMap(tags, color_by_tag) ==
    IF color_by_tag
    THEN LET n == Cardinality(tags)
         IN  [t \in tags |-> Rgb(RainbowLUT[LutIndex(TagPosition(t, tags), n) + 1])]
    ELSE <<>>

\* dict.get(key, default)
Get(d, key, default) == IF key \in DOMAIN d THEN d[key] ELSE default

\* f'{number}<br>Tag: {tag}' and str(number)
NumberTagText(number, tag) == [number |-> number, tag |-> tag]
NumberText(number) == [number |-> number]

RECURSIVE Sum(_)
Sum(xs) == IF xs = <<>> THEN 0 ELSE Head(xs) + Sum(Tail(xs))

\* sum(x) / len(x), kept exact as a fraction
Mean(xs) == [num |-> Sum(xs), den |-> Len(xs)]

\* lines 93-107
NodeTrace(h, ndb, f, map) ==
    LET ks == DOMAIN ndb
        node_color == IF f.color_by_tag
                      THEN [n \in ks |-> Get(map, h[ndb[n]].tag, Named("red"))]
                      ELSE [n \in ks |-> Named("red")]
    IN  [x |-> [n \in ks |-> h[ndb[n]].x],
         y |-> [n \in ks |-> h[ndb[n]].y],
         z |-> [n \in ks |-> h[ndb[n]].z],
         mode |-> IF f.show_numbers \/ f.show_tags THEN "markers+text" ELSE "markers",
         color |-> node_color,
         text |-> IF f.show_numbers
                  THEN [kind |-> "list",
                        items |-> [n \in ks |->
                                     IF f.show_tags
                                     THEN NumberTagText(n, h[ndb[n]].tag)
                                     ELSE NumberText(n)]]
                  ELSE NoneVal,
         showlegend |-> f.show_legend]

\* lines 111-142: the traces one element adds
ElementTraces(h, enumber, element, f, map) ==
    LET x == [i \in 1..Len(element.nodes) |-> h[element.nodes[i]].x]
        y == [i \in 1..Len(element.nodes) |-> h[element.nodes[i]].y]
        z == [i \in 1..Len(element.nodes) |-> h[element.nodes[i]].z]
        color == IF f.color_by_tag THEN Get(map, element.tag, Named("black"))
                 ELSE Named("black")
        text == IF f.show_tags THEN NumberTagText(enumber, element.tag)
                ELSE IF f.show_numbers THEN NumberText(enumber)
                ELSE NoneVal
        element_trace == [mode |-> "lines", x |-> x, y |-> y, z |-> z,
                          color |-> color, showlegend |-> f.show_legend]
        mid_trace == [mode |-> "text", x |-> <<Mean(x)>>, y |-> <<Mean(y)>>,
                      z |-> <<Mean(z)>>, text |-> <<text>>, color |-> color,
                      showlegend |-> FALSE]
    IN  IF f.show_numbers \/ f.show_tags
        THEN <<mid_trace, element_trace>>
        ELSE <<element_trace>>

RECURSIVE AllElementTraces(_, _, _, _, _)
AllElementTraces(h, edb, ks, f, map) ==
    IF ks = <<>> THEN <<>>
    ELSE ElementTraces(h, Head(ks), edb[Head(ks)], f, map)
            \o AllElementTraces(h, edb, Tail(ks), f, map)

\* lines 86-160: a call of plot_model builds the figure
PlotBuild ==
    /\ plot.pc \in {"start", "returned"}
    /\ \E f \in [show_numbers : BOOLEAN, show_tags : BOOLEAN, color_by_tag : BOOLEAN,
                 save_html : BOOLEAN, show_legend : BOOLEAN] :
         LET map == TagColorMap(TagSet(heap, nodes_db, elements_db), f.color_by_tag)
         IN  plot' = [pc |-> "show", flags |-> f, tag_color_map |-> map,
                      node_trace |-> NodeTrace(heap, nodes_db, f, map),
                      element_traces |->
                          AllElementTraces(heap, elements_db,
                                           SortedSeq(DOMAIN elements_db), f, map),
                      events |-> <<>>]
    /\ UNCHANGED <<heap, nodes_db, elements_db, ret, mesh, gmsh, imp, ops, scall, mat>>

PlotShowThenWrite ==
    /\ plot.pc = "show"
    /\ plot' = [plot EXCEPT !.events = Append(@, "show"), !.pc = "write"]
    /\ UNCHANGED <<heap, nodes_db, elements_db, ret, mesh, gmsh, imp, ops, scall, mat>>

\* lines 163-166: fig.show(), then the test of save_html
PlotShow ==
    /\ plot.pc = "show"
    /\ plot' = [plot EXCEPT !.events = Append(@, "show"),
                            !.pc = IF plot.flags.save_html THEN "write" ELSE "returned"]
    /\ UNCHANGED <<heap, nodes_db, elements_db, ret, mesh, gmsh, imp, ops, scall, mat>>

\* line 167: fig.write_html(filename)
PlotWrite ==
    /\ plot.pc = "write"
    /\ plot' = [plot EXCEPT !.events = Append(@, "write_html"), !.pc = "returned"]
    /\ UNCHANGED <<heap, nodes_db, elements_db, ret, mesh, gmsh, imp, ops, scall, mat>>

(***************************************************************************)
(* The plot specification: a small model (up to MaxPlotNodes nodes and     *)
(* MaxPlotElems two-node elements, tagged or not) or a model of            *)
(* LutSize or LutSize + 1 nodes with a physical group each, and calls of   *)
(* plot_model on it.                                                       *)
(***************************************************************************)
PlotTags == {-1, 1, 2}
ElementTags == {-1, 2}

NodePairs(n) == {p \in (1..n) \X (1..n) : p[1] < p[2]}

SmallModel ==
    \E n \in 0..MaxPlotNodes :
      \E nt \in [1..n -> PlotTags] :
        \E m \in 0..MaxPlotElems :
          \E ends \in [1..m -> NodePairs(n)], et \in [1..m -> ElementTags] :
            /\ heap = [i \in 1..n |->
                         LET c == CoordOf("diagonal", i)
                         IN  Node(i, c[1], c[2], c[3], nt[i])]
            /\ nodes_db = [i \in 1..n |-> i]
            /\ elements_db = [e \in 1..m |->
                                Element(heap, e, <<ends[e][1], ends[e][2]>>, et[e],
                                        "uniaxial")]

ManyGroupsModel ==
    \E n \in {LutSize, LutSize + 1} :
        /\ heap = [i \in 1..n |-> Node(i, i, 0, 0, i)]
        /\ nodes_db = [i \in 1..n |-> i]
        /\ elements_db = EmptyDict

InitPlot ==
    /\ SmallModel \/ ManyGroupsModel
    /\ ret = NoCall
    /\ mesh = NoMesh
    /\ gmsh = NoSession
    /\ imp = NoImport
    /\ ops = NoModel
    /\ scall = NoStart
    /\ mat = NoTest
    /\ plot = NoPlot

NextPlot == PlotBuild \/ PlotShow \/ PlotWrite

SpecPlot == InitPlot /\ [][NextPlot]_vars

AllTags ==
    {heap[nodes_db[n]].tag : n \in DOMAIN nodes_db}
        \cup {elements_db[e].tag : e \in DOMAIN elements_db}

\* the line traces, one per element, in the order of the elements
LineTraces == SelectSeq(plot.element_traces, LAMBDA t : t.mode = "lines")

\* C5: with color_by_tag the tag-to-colour map has one entry per distinct tag
\* of nodes and elements, -1 is no key, and distinct tags have distinct
\* colours; nodes tagged -1 are red and elements tagged -1 black; without
\* color_by_tag every node is red and every element black.
C5_TagColours ==
    (plot.pc # "start") =>
        LET es == ElementValues(elements_db)
            map == plot.tag_color_map
        IN  IF plot.flags.color_by_tag
            THEN /\ DOMAIN map = AllTags \ {-1}
                 /\ \A t1, t2 \in DOMAIN map : t1 # t2 => map[t1] # map[t2]
                 /\ \A n \in DOMAIN nodes_db :
                       heap[nodes_db[n]].tag = -1
                          => plot.node_trace.color[n] = Named("red")
                 /\ \A i \in 1..Len(es) :
                       es[i].tag = -1 => LineTraces[i].color = Named("black")
            ELSE /\ \A n \in DOMAIN nodes_db : plot.node_trace.color[n] = Named("red")
                 /\ \A i \in 1..Len(es) : LineTraces[i].color = Named("black")

\* the same with the distinctness of colours claimed only of models with at
\* most LutSize distinct tags
C5_UpToLutSize ==
    (plot.pc # "start") =>
        LET es == ElementValues(elements_db)
            map == plot.tag_color_map
        IN  IF plot.flags.color_by_tag
            THEN /\ DOMAIN map = AllTags \ {-1}
                 /\ Cardinality(DOMAIN map) <= LutSize =>
                       \A t1, t2 \in DOMAIN map : t1 # t2 => map[t1] # map[t2]
                 /\ \A n \in DOMAIN nodes_db :
                       heap[nodes_db[n]].tag = -1
                          => plot.node_trace.color[n] = Named("red")
                 /\ \A i \in 1..Len(es) :
                       es[i].tag = -1 => LineTraces[i].color = Named("black")
            ELSE /\ \A n \in DOMAIN nodes_db : plot.node_trace.color[n] = Named("red")
                 /\ \A i \in 1..Len(es) : LineTraces[i].color = Named("black")

\* C9: plot_model changes neither collection nor any record in them; a call
\* that has returned has called fig.show exactly once, and fig.write_html
\* exactly when save_html is true, after fig.show; nothing is written before
\* the figure is shown.
C9_PlotReadOnly ==
    /\ [](/\ plot.events \in {<<>>, <<"show">>, <<"show", "write_html">>}
          /\ (plot.pc = "returned") =>
                plot.events = IF plot.flags.save_html
                              THEN <<"show", "write_html">>
                              ELSE <<"show">>)
    /\ [][<<heap, nodes_db, elements_db>>' = <<heap, nodes_db, elements_db>>]_vars

C9_Witness ==
    /\ plot.pc = "returned"
    /\ plot.flags.save_html
    /\ plot.flags.show_tags
    /\ ~plot.flags.show_numbers
    /\ plot.events = <<"show", "write_html">>
    /\ Cardinality(DOMAIN elements_db) = 1
    /\ Len(plot.element_traces) = 2

====
